---- MODULE Spec2Model ----
(***************************************************************************)
(* A model of the SMBIOS structure encoders of smbios_tables:               *)
(* src/src/lib.rs (Sink, SmbiosStructure), src/src/macros.rs (the generic   *)
(* structure facility), src/src/tables.rs (the structures and the entry     *)
(* point) and src/src/types.rs (the field value types).                      *)
(*                                                                           *)
(* Numbers.  TLC's integers are 32 bits wide, the program's go up to 128.    *)
(* A stored field is the sequence of its bytes, least significant first,     *)
(* which is also how the zerocopy U16/U32/U64/U128 types hold it.  A u64     *)
(* argument is a sequence of 64 bits, least significant first, and the       *)
(* arithmetic the program does on it (shifts, subtraction, comparison,       *)
(* narrowing) is done on the bits.                                           *)
(*                                                                           *)
(* Faults.  A Rust panic is modelled by the variable fault: the action       *)
(* leaves the structure as it is at the panicking statement, names the       *)
(* panicking operation in fault, and no operation follows.                   *)
(***************************************************************************)
EXTENDS Integers, Sequences, FiniteSets, TLC

VARIABLES
    obj,    \* the structure under construction, NoObj before new()
    ctor,   \* the arguments the caller gave to new(), <<>> before
    sink,   \* the caller's Vec<u8> sink
    mark,   \* the length of sink when the last serialize call began
    last,   \* the caller's last call: [op |-> its name, arg |-> its arguments]
    nser,   \* the number of serialize calls made
    ncalls, \* the number of setter calls made
    fault   \* "none", or the operation that panicked

vars == <<obj, ctor, sink, mark, last, nser, ncalls, fault>>

----------------------------------------------------------------------------
(* Bounds of the model.                                                     *)

\* Setter calls on one structure, where the caller mixes the setters.
MaxCalls == 2
\* Serialize calls on one structure.
MaxSerialize == 2
\* String appends made with a free choice of field and text; past it the
\* caller keeps setting the field it set last, with the text FillStr.
MaxMix == 2
\* Appends the caller of OemStrings attempts past the 255th.
MaxOver == 2

\* String setter calls on one structure that is also serialized.
MaxTable == 3

\* Calls made on a sink directly.
MaxSinkCalls == 3

----------------------------------------------------------------------------
(* Bytes and bits.                                                          *)

Zeros(n) == [i \in 1..n |-> 0]

\* The recursions over a sequence split it in halves, which keeps the
\* evaluation shallow on the longest sequences (256 strings, 116 bytes).
Front(s) == SubSeq(s, 1, Len(s) \div 2)
Back(s) == SubSeq(s, Len(s) \div 2 + 1, Len(s))

RECURSIVE Flatten(_)
Flatten(ss) ==
    IF ss = <<>> THEN <<>>
    ELSE IF Len(ss) = 1 THEN ss[1]
    ELSE Flatten(Front(ss)) \o Flatten(Back(ss))

RECURSIVE SumSeq(_)
SumSeq(s) ==
    IF s = <<>> THEN 0
    ELSE IF Len(s) = 1 THEN s[1]
    ELSE SumSeq(Front(s)) + SumSeq(Back(s))

\* to_le_bytes of an integer below 2^31, w bytes wide.
RECURSIVE to_le_bytes(_, _)
to_le_bytes(n, w) ==
    IF w = 0 THEN <<>> ELSE <<n % 256>> \o to_le_bytes(n \div 256, w - 1)

\* The w-bit representation of an integer below 2^31.
IntToBits(n, w) ==
    [i \in 1..w |-> IF i <= 31 THEN (n \div 2 ^ (i - 1)) % 2 ELSE 0]

U64Of(n) == IntToBits(n, 64)

\* The little-endian bytes of a bit sequence whose length is a multiple of 8.
BitsToBytes(b) ==
    [i \in 1..(Len(b) \div 8) |->
        LET o == 8 * (i - 1) IN
        b[o + 1] + 2 * b[o + 2] + 4 * b[o + 3] + 8 * b[o + 4]
        + 16 * b[o + 5] + 32 * b[o + 6] + 64 * b[o + 7] + 128 * b[o + 8]]

\* u64 `>>` and `<<` by k < 64: the bits shifted out are lost.
Shr(b, k) == SubSeq(b, k + 1, Len(b)) \o Zeros(k)
Shl(b, k) == Zeros(k) \o SubSeq(b, 1, Len(b) - k)

\* a >= b on equally wide unsigned values, decided at the highest differing bit.
GeqBits(a, b) ==
    \/ a = b
    \/ \E i \in 1..Len(a) :
          /\ a[i] > b[i]
          /\ \A j \in (i + 1)..Len(a) : a[j] = b[j]

\* a - b on equally wide unsigned values, with borrow, wrapping.
RECURSIVE SubBorrow(_, _, _)
SubBorrow(a, b, borrow) ==
    IF a = <<>> THEN <<>>
    ELSE LET d == Head(a) - Head(b) - borrow IN
         <<d % 2>> \o SubBorrow(Tail(a), Tail(b), IF d < 0 THEN 1 ELSE 0)

SubBits(a, b) == SubBorrow(a, b, 0)

\* TryFrom to a w-bit unsigned integer: fits when no bit above w is set.
Fits(b, w) == \A i \in (w + 1)..Len(b) : b[i] = 0
Narrow(b, w) == SubSeq(b, 1, w)

----------------------------------------------------------------------------
(* Field value types: the wire width, the Default value and the values the  *)
(* model's caller passes to a direct setter.  str marks a StringIndex.      *)
(* The repr(u16) enumerations are laid out by the target; the targets of    *)
(* this crate are little-endian.                                            *)

Ty(w, dflt, vals) == [w |-> w, dflt |-> dflt, str |-> FALSE, vals |-> vals]
Enum8(dflt, other) == Ty(1, <<dflt>>, {<<other>>})
Enum16(dflt, other) == Ty(2, to_le_bytes(dflt, 2), {to_le_bytes(other, 2)})

StringIndex == [w |-> 1, dflt |-> <<0>>, str |-> TRUE, vals |-> {}]
u8 == Ty(1, <<0>>, {<<255>>})
U16 == Ty(2, Zeros(2), {<<1, 0>>})
U32 == Ty(4, Zeros(4), {<<120, 86, 52, 18>>})
U64 == Ty(8, Zeros(8), {<<239, 205, 171, 144, 120, 86, 52, 18>>})
U128 == Ty(16, Zeros(16), {[i \in 1..16 |-> i]})
StructureHandle == U16
ByteArray(n) == Ty(n, Zeros(n), {[i \in 1..n |-> 255 - i]})

WakeupType == Enum8(2, 8)
ProcessorType == Enum8(2, 3)
ProcessorFamily == Enum8(2, 254)
ProcessorFamily2 == Enum16(65534, 513)
ProcessorUpgrade == Enum8(2, 6)
CacheConfiguration == Ty(2, Zeros(2), {to_le_bytes(385, 2)})
SramType == Enum16(2, 32)
EccType == Enum8(2, 5)
SystemCacheType == Enum8(2, 5)
Associativity == Enum8(2, 14)
SlotType == Enum8(2, 196)
SlotWidth == Enum8(2, 13)
CurrentUsage == Enum8(2, 4)
SlotLength == Enum8(2, 4)
ArrayLocation == Enum8(2, 3)
ArrayUse == Enum8(2, 3)
ErrorCorrectionType == Enum8(2, 7)
FormFactor == Enum8(2, 9)
MemoryType == Enum8(2, 34)
MemoryTechnology == Enum8(2, 3)
PartitionRowPosition == Enum8(255, 0)
Xlen == Enum8(2, 3)

----------------------------------------------------------------------------
(* The field schemas of the simple_smbios_structure! invocations, in        *)
(* declared order.                                                          *)

F(name, ty) ==
    [name |-> name, w |-> ty.w, dflt |-> ty.dflt, str |-> ty.str, vals |-> ty.vals]

Type0Data == <<
    F("vendor", StringIndex),
    F("bios_version", StringIndex),
    F("bios_starting_address_segment", U16),
    F("bios_release_date", StringIndex),
    F("bios_rom_size", u8),
    F("bios_characteristics", U64),
    F("bios_characteristics_ex1", u8),
    F("bios_characteristics_ex2", u8) >>

Type1Data == <<
    F("manufacturer", StringIndex),
    F("product_name", StringIndex),
    F("version", StringIndex),
    F("serial_number", StringIndex),
    F("uuid", ByteArray(16)),
    F("wakeup_type", WakeupType),
    F("sku_number", StringIndex),
    F("family", StringIndex) >>

Type4Data == <<
    F("socket_designation", StringIndex),
    F("processor_type", ProcessorType),
    F("processor_family", ProcessorFamily),
    F("processor_manufacturer", StringIndex),
    F("processor_id", U64),
    F("processor_version", StringIndex),
    F("voltage", u8),
    F("external_clock", U16),
    F("max_speed", U16),
    F("current_speed", U16),
    F("status", u8),
    F("processor_ugprade", ProcessorUpgrade),
    F("l1_cache_handle", StructureHandle),
    F("l2_cache_handle", StructureHandle),
    F("l3_cache_handle", StructureHandle),
    F("serial_number", StringIndex),
    F("asset_tag", StringIndex),
    F("part_number", StringIndex),
    F("core_count", u8),
    F("core_enabled", u8),
    F("thread_count", u8),
    F("processor_characteristics", U16),
    F("processor_family2", ProcessorFamily2),
    F("core_count2", U16),
    F("core_enabled2", U16),
    F("thread_count2", U16),
    F("thread_enabled", U16) >>

Type7Data == <<
    F("socket_designation", StringIndex),
    F("cache_configuration", CacheConfiguration),
    F("maximum_cache_size", U16),
    F("installed_size", U16),
    F("supported_sram_type", SramType),
    F("current_sram_type", SramType),
    F("cache_speed", u8),
    F("error_correction_type", EccType),
    F("system_cache_type", SystemCacheType),
    F("associativity", Associativity),
    F("maximum_cache_size2", U32),
    F("installed_cache_size2", U32) >>

Type9Data == <<
    F("slot_designation", StringIndex),
    F("slot_type", SlotType),
    F("slot_data_bus_width", SlotWidth),
    F("current_usage", CurrentUsage),
    F("slot_length", SlotLength),
    F("slot_id", U16),
    F("slot_characteristics1", u8),
    F("slot_characteristics2", u8),
    F("segment_group_number", U16),
    F("bus_number", u8),
    F("devfn", u8),
    F("data_bus_width", u8),
    F("peer_group_count", u8) >>

Type16Data == <<
    F("location", ArrayLocation),
    F("array_use", ArrayUse),
    F("memory_error_correction", ErrorCorrectionType),
    F("maximum_capacity", U32),
    F("error_information_handle", StructureHandle),
    F("number_of_memory_devices", U16),
    F("extended_maximum_capacity", U64) >>

Type17Data == <<
    F("physical_memory_array_handle", StructureHandle),
    F("error_information_handle", StructureHandle),
    F("total_width", U16),
    F("data_width", U16),
    F("size", U16),
    F("form_factor", FormFactor),
    F("device_set", u8),
    F("device_locator", StringIndex),
    F("bank_locator", StringIndex),
    F("memory_type", MemoryType),
    F("type_detail", U16),
    F("speed", U16),
    F("manufacturer", StringIndex),
    F("serial_number", StringIndex),
    F("asset_tag", StringIndex),
    F("part_number", StringIndex),
    F("attributes", u8),
    F("extended_size", U32),
    F("configured_memory_speed", U16),
    F("minimum_voltage", U16),
    F("maximum_voltage", U16),
    F("configured_voltage", U16),
    F("memory_technology", MemoryTechnology),
    F("memory_operating_mode", U16),
    F("firmware_version", StringIndex),
    F("module_manufacturer_id", U16),
    F("module_product_id", U16),
    F("memory_subsystem_controller_manufacturer_id", U16),
    F("memory_subsystem_controller_product_id", U16),
    F("non_volatile_size", U64),
    F("volatile_size", U64),
    F("cache_size", U64),
    F("logical_size", U64),
    F("extended_speed", U32),
    F("extended_configured_memory_speed", U32),
    F("pmic0_manufacturer_id", U16),
    F("pmic0_revision_number", U16),
    F("rcd_manufacturer_id", U16),
    F("rcd_revision_number", U16) >>

Type19Data == <<
    F("starting_address", U32),
    F("ending_address", U32),
    F("memory_array_handle", StructureHandle),
    F("partition_width", u8),
    F("extended_starting_address", U64),
    F("extended_ending_address", U64) >>

Type20Data == <<
    F("starting_address", U32),
    F("ending_address", U32),
    F("memory_device_handle", StructureHandle),
    F("memory_array_mapped_address_handle", StructureHandle),
    F("partition_row_position", PartitionRowPosition),
    F("interleave_position", u8),
    F("interleaved_data_depth", u8),
    F("extended_starting_address", U64),
    F("extended_ending_address", U64) >>

Type43Data == <<
    F("vendor_id", ByteArray(4)),
    F("major_spec_version", u8),
    F("minor_spec_version", u8),
    F("firmware_version1", U32),
    F("firmware_version2", U32),
    F("description", StringIndex),
    F("characteristics", U64),
    F("oem_defined", U32) >>

RiscvType44Data == <<
    F("referenced_handle", StructureHandle),
    F("revision", U16),
    F("structure_length", u8),
    F("hart_id", U128),
    F("boot_hart", u8),
    F("mvendorid", U128),
    F("marchid", U128),
    F("mimplid", U128),
    F("isa_supported", U32),
    F("privilege_level_supported", u8),
    F("m_exception_delegation", U128),
    F("m_interrupt_delegation", U128),
    F("xlen", Xlen),
    F("mxlen", Xlen),
    F("reserved", u8),
    F("sxlen", Xlen),
    F("uxlen", Xlen) >>

Type127Data == << >>

\* The type ids given to simple_smbios_structure!.
GenericTypes == {0, 1, 4, 7, 9, 16, 17, 19, 20, 43, 44, 127}

Schema(T) ==
    CASE T = 0 -> Type0Data
      [] T = 1 -> Type1Data
      [] T = 4 -> Type4Data
      [] T = 7 -> Type7Data
      [] T = 9 -> Type9Data
      [] T = 16 -> Type16Data
      [] T = 17 -> Type17Data
      [] T = 19 -> Type19Data
      [] T = 20 -> Type20Data
      [] T = 43 -> Type43Data
      [] T = 44 -> RiscvType44Data
      [] T = 127 -> Type127Data

FieldIx(T) == 1..Len(Schema(T))
StrFieldIx(T) == {i \in FieldIx(T) : Schema(T)[i].str}
ValFieldIx(T) == {i \in FieldIx(T) : ~Schema(T)[i].str}

----------------------------------------------------------------------------
(* Sink (lib.rs) and its Vec<u8> implementation.                            *)

SinkByte(snk, byte) == Append(snk, byte)

\* for byte in v { self.byte(*byte) }: what the byte calls append, in order.
RECURSIVE EachByte(_)
EachByte(v) ==
    IF v = <<>> THEN <<>>
    ELSE IF Len(v) = 1 THEN SinkByte(<<>>, v[1])
    ELSE EachByte(Front(v)) \o EachByte(Back(v))

SinkVec(snk, v) == snk \o EachByte(v)

\* Faulty variant: the most significant byte first.
SinkWord_BigEndian(snk, word) == SinkByte(SinkByte(snk, word \div 256), word % 256)

SinkWord(snk, word) == SinkVec(snk, to_le_bytes(word, 2))

\* dword and qword take their argument as 32 and 64 bits, least significant
\* first; to_le_bytes of it is the bits in groups of 8.
SinkDword(snk, dword) == SinkVec(snk, BitsToBytes(dword))
SinkQword(snk, qword) == SinkVec(snk, BitsToBytes(qword))

----------------------------------------------------------------------------
(* The generic structure facility (macros.rs).                              *)

\* StringIndex = u8: the largest index a string-reference field can hold.
U8Max == 255

HeaderNames == {"type", "length", "handle"}

FieldNames(T) == {Schema(T)[i].name : i \in FieldIx(T)}

FieldOf(T, n) == Schema(T)[CHOOSE i \in FieldIx(T) : Schema(T)[i].name = n]

\* Faulty variant: the size of the declared fields, without the 4 header bytes.
size_of_NoHeader(T) == SumSeq([i \in FieldIx(T) |-> Schema(T)[i].w])

\* size_of of the packed inner struct: the 4 header bytes and the fields.
size_of(T) == 1 + 1 + 2 + SumSeq([i \in FieldIx(T) |-> Schema(T)[i].w])

\* inner_new!: the inner struct's new(handle).
inner_new(T, handle) ==
    [n \in HeaderNames \cup FieldNames(T) |->
        CASE n = "type" -> <<T>>
          [] n = "length" -> <<size_of(T) % 256>>
          [] n = "handle" -> to_le_bytes(handle, 2)
          [] OTHER -> FieldOf(T, n).dflt]

\* AsBytes of the packed inner struct: the fields in declared order.
as_bytes(T, data) ==
    data["type"] \o data["length"] \o data["handle"]
    \o Flatten([i \in FieldIx(T) |-> data[Schema(T)[i].name]])

NoObj == [kind |-> "none"]

\* inner_impl!: the outer struct's new(handle).
new(T, handle) ==
    [kind |-> "generic", ty |-> T, data |-> inner_new(T, handle), strings |-> <<>>]

\* Faulty variant: the index is the length before the push (0-based).
add_string_OldLen(o, s) ==
    LET pushed == Append(o.strings, s) IN
    [strings |-> pushed, ok |-> Len(pushed) <= U8Max, ret |-> Len(o.strings)]

\* Faulty variant: the index is returned but the text is never pushed.
add_string_NoPush(o, s) ==
    [strings |-> o.strings, ok |-> Len(o.strings) + 1 <= U8Max, ret |-> Len(o.strings) + 1]

\* Faulty variant: the length is narrowed with a wrapping cast (`as u8`), no panic.
add_string_Wrapping(o, s) ==
    LET pushed == Append(o.strings, s) IN
    [strings |-> pushed, ok |-> TRUE, ret |-> Len(pushed) % 256]

\* add_string: push, then narrow the new length to u8; ok is FALSE where the
\* unwrap panics (the push has happened by then).
add_string(o, s) ==
    LET pushed == Append(o.strings, s) IN
    [strings |-> pushed, ok |-> Len(pushed) <= U8Max, ret |-> Len(pushed)]

\* Faulty variant: a field that already holds an index has its string replaced
\* in place instead of a new one appended.
set_string_ReplaceOld(o, name, s) ==
    IF o.data[name] # <<0>>
    THEN [obj |-> [o EXCEPT !.strings[o.data[name][1]] = s], fault |-> "none"]
    ELSE LET r == add_string(o, s) IN
         IF r.ok
         THEN [obj |-> [o EXCEPT !.strings = r.strings, !.data[name] = <<r.ret>>],
               fault |-> "none"]
         ELSE [obj |-> [o EXCEPT !.strings = r.strings], fault |-> "add_string"]

\* The setter of a StringIndex field: self.data.$ident = self.add_string(s).
set_string(o, name, s) ==
    LET r == add_string(o, s) IN
    IF r.ok
    THEN [obj |-> [o EXCEPT !.strings = r.strings, !.data[name] = <<r.ret>>],
          fault |-> "none"]
    ELSE [obj |-> [o EXCEPT !.strings = r.strings], fault |-> "add_string"]

\* The setter of any other field: self.data.$ident = t.
set_value(o, name, t) == [o EXCEPT !.data[name] = t]

\* serialize_structure_with_strings!.
\* for s in &self.strings { sink.vec(s.as_bytes()); sink.byte(0); }: what the
\* loop appends, in order.
RECURSIVE EachString(_)
EachString(strings) ==
    IF strings = <<>> THEN <<>>
    ELSE IF Len(strings) = 1 THEN SinkByte(SinkVec(<<>>, strings[1]), 0)
    ELSE EachString(Front(strings)) \o EachString(Back(strings))

SinkStrings(snk, strings) == snk \o EachString(strings)

\* Faulty variant: one terminator after the strings, also when there are none.
serialize_OneTerminator(o, snk) ==
    [sink |-> SinkByte(SinkStrings(SinkVec(snk, as_bytes(o.ty, o.data)), o.strings), 0),
     fault |-> "none"]

\* Faulty variant: the fixed record is written only into a sink that is still empty.
serialize_HeaderOnce(o, snk) ==
    LET s1 == IF snk = <<>> THEN SinkVec(snk, as_bytes(o.ty, o.data)) ELSE snk
        s3 == SinkByte(SinkStrings(s1, o.strings), 0)
    IN  [sink |-> IF o.strings = <<>> THEN SinkByte(s3, 0) ELSE s3, fault |-> "none"]

serialize_structure_with_strings(o, snk) ==
    LET s1 == SinkVec(snk, as_bytes(o.ty, o.data))
        s2 == SinkStrings(s1, o.strings)
        s3 == SinkByte(s2, 0)
    IN  [sink |-> IF o.strings = <<>> THEN SinkByte(s3, 0) ELSE s3,
         fault |-> "none"]

----------------------------------------------------------------------------
(* Scaled numeric setters (tables.rs).                                      *)

to_mb(n) == Shr(n, 20)
mb(n) == Shl(n, 20)
gb(n) == Shl(n, 30)
tb(n) == Shl(n, 40)

\* n / 1024 on a u64: the quotient by 2^10 is the value shifted right by 10.
DivBy1024(n) == Shr(n, 10)

\* Faulty variant: the sentinel path is taken above 2 TiB only (`>` for `>=`).
set_memory_capacity_Gt(o, memory_capacity_bytes) ==
    IF ~GeqBits(tb(U64Of(2)), memory_capacity_bytes)
    THEN [obj |-> [o EXCEPT
                     !.data["maximum_capacity"] = BitsToBytes(Zeros(31) \o <<1>>),
                     !.data["extended_maximum_capacity"] =
                         BitsToBytes(memory_capacity_bytes)],
          fault |-> "none"]
    ELSE LET q == DivBy1024(memory_capacity_bytes) IN
         IF Fits(q, 32)
         THEN [obj |-> [o EXCEPT
                          !.data["maximum_capacity"] = BitsToBytes(Narrow(q, 32)),
                          !.data["extended_maximum_capacity"] = Zeros(8)],
               fault |-> "none"]
         ELSE [obj |-> o, fault |-> "set_memory_capacity"]

\* PhysicalMemoryArray::set_memory_capacity.
set_memory_capacity(o, memory_capacity_bytes) ==
    IF GeqBits(memory_capacity_bytes, tb(U64Of(2)))
    THEN [obj |-> [o EXCEPT
                     !.data["maximum_capacity"] = BitsToBytes(Zeros(31) \o <<1>>),
                     !.data["extended_maximum_capacity"] =
                         BitsToBytes(memory_capacity_bytes)],
          fault |-> "none"]
    ELSE LET q == DivBy1024(memory_capacity_bytes) IN
         IF Fits(q, 32)
         THEN [obj |-> [o EXCEPT
                          !.data["maximum_capacity"] = BitsToBytes(Narrow(q, 32)),
                          !.data["extended_maximum_capacity"] = Zeros(8)],
               fault |-> "none"]
         ELSE [obj |-> o, fault |-> "set_memory_capacity"]

\* Option<u64>: None is the empty sequence, Some(n) the sequence of n alone.
None == << >>
Some(n) == << n >>

\* Faulty variant: the sentinel path is taken above the threshold only (`>` for `>=`).
set_memory_size_Gt(o, opt) ==
    IF opt = None
    THEN [obj |-> [o EXCEPT !.data["size"] = <<255, 255>>], fault |-> "none"]
    ELSE LET size == opt[1] IN
    IF ~GeqBits(SubBits(gb(U64Of(32)), mb(U64Of(1))), size)
    THEN LET o1 == [o EXCEPT !.data["size"] = <<255, 127>>] IN
         IF Fits(to_mb(size), 32)
         THEN [obj |-> [o1 EXCEPT !.data["extended_size"] =
                                      BitsToBytes(Narrow(to_mb(size), 32))],
               fault |-> "none"]
         ELSE [obj |-> o1, fault |-> "set_memory_size"]
    ELSE IF Fits(to_mb(size), 16)
         THEN [obj |-> [o EXCEPT !.data["size"] = BitsToBytes(Narrow(to_mb(size), 16))],
               fault |-> "none"]
         ELSE [obj |-> o, fault |-> "set_memory_size"]

\* Faulty variant: the megabyte value is narrowed with a truncating cast
\* (`as u32`, `as u16`) instead of try_into().unwrap().
set_memory_size_Truncating(o, opt) ==
    IF opt = None
    THEN [obj |-> [o EXCEPT !.data["size"] = <<255, 255>>], fault |-> "none"]
    ELSE LET size == opt[1] IN
    IF GeqBits(size, SubBits(gb(U64Of(32)), mb(U64Of(1))))
    THEN [obj |-> [o EXCEPT !.data["size"] = <<255, 127>>,
                            !.data["extended_size"] =
                                BitsToBytes(Narrow(to_mb(size), 32))],
          fault |-> "none"]
    ELSE [obj |-> [o EXCEPT !.data["size"] = BitsToBytes(Narrow(to_mb(size), 16))],
          fault |-> "none"]

\* MemoryDevice::set_memory_size.
set_memory_size(o, opt) ==
    IF opt = None
    THEN [obj |-> [o EXCEPT !.data["size"] = <<255, 255>>], fault |-> "none"]
    ELSE LET size == opt[1] IN
    IF GeqBits(size, SubBits(gb(U64Of(32)), mb(U64Of(1))))
    THEN LET o1 == [o EXCEPT !.data["size"] = <<255, 127>>] IN
         IF Fits(to_mb(size), 32)
         THEN [obj |-> [o1 EXCEPT !.data["extended_size"] =
                                      BitsToBytes(Narrow(to_mb(size), 32))],
               fault |-> "none"]
         ELSE [obj |-> o1, fault |-> "set_memory_size"]
    ELSE IF Fits(to_mb(size), 16)
         THEN [obj |-> [o EXCEPT !.data["size"] = BitsToBytes(Narrow(to_mb(size), 16))],
               fault |-> "none"]
         ELSE [obj |-> o, fault |-> "set_memory_size"]

\* MemoryArrayMappedAddress / MemoryDeviceMappedAddress ::set_address_range.
set_address_range(o, starting, ending) ==
    [o EXCEPT !.data["starting_address"] = <<255, 255, 255, 255>>,
              !.data["ending_address"] = <<255, 255, 255, 255>>,
              !.data["extended_starting_address"] = BitsToBytes(starting),
              !.data["extended_ending_address"] = BitsToBytes(ending)]

----------------------------------------------------------------------------
(* EntryPoint (tables.rs).                                                  *)

SMBIOS_MAJOR == 3
SMBIOS_MINOR == 7
SMBIOS_DOCREV == 0
SMBIOS_REVISION == 1

EntryPointFields ==
    << "anchor", "checksum", "length", "major_version", "minor_version", "docrev",
       "revision", "_reserved", "structure_max_size", "table_address" >>

\* size_of::<EntryPoint>(), asserted to be 0x18.
EntryPointSize == 24

EntryPointBytes(data) ==
    Flatten([i \in 1..Len(EntryPointFields) |-> data[EntryPointFields[i]]])

\* sum = sum.wrapping_add(*b) over the bytes.
RECURSIVE WrappingSum(_, _)
WrappingSum(sum, bytes) ==
    IF bytes = <<>> THEN sum
    ELSE WrappingSum((sum + Head(bytes)) % 256, Tail(bytes))

\* Faulty variant: the one's complement of the sum instead of its two's complement.
WrappingNeg_OnesComplement(sum) == 255 - sum

\* 0u8.wrapping_sub(sum)
WrappingNeg(sum) == (256 - sum) % 256

\* EntryPoint::new; the arguments are 32 and 64 bits.
EntryPoint_new(structure_max_size, table_address) ==
    LET s == [anchor |-> <<95, 83, 77, 51, 95>>,
              checksum |-> <<0>>,
              length |-> <<EntryPointSize % 256>>,
              major_version |-> <<SMBIOS_MAJOR>>,
              minor_version |-> <<SMBIOS_MINOR>>,
              docrev |-> <<SMBIOS_DOCREV>>,
              revision |-> <<SMBIOS_REVISION>>,
              _reserved |-> <<0>>,
              structure_max_size |-> BitsToBytes(structure_max_size),
              table_address |-> BitsToBytes(table_address)]
        sum == WrappingSum(0, EntryPointBytes(s))
    IN  [kind |-> "EntryPoint", data |-> [s EXCEPT !.checksum = <<WrappingNeg(sum)>>]]

EntryPoint_serialize(o, snk) ==
    [sink |-> SinkVec(snk, EntryPointBytes(o.data)), fault |-> "none"]

----------------------------------------------------------------------------
(* OemStrings (tables.rs).                                                  *)

OemStrings_new(handle) == [kind |-> "OemStrings", handle |-> handle, strings |-> <<>>]

OemStrings_add_string(o, s) == [o EXCEPT !.strings = Append(o.strings, s)]

\* Faulty variant: a second terminator when there are no strings, as the
\* generic structures write.
OemStrings_serialize_ExtraTerminator(o, snk) ==
    LET s1 == SinkWord(SinkByte(SinkByte(snk, 11), 5), o.handle)
        s2 == SinkByte(SinkStrings(SinkByte(s1, Len(o.strings) % 256), o.strings), 0)
    IN  IF Len(o.strings) > U8Max THEN [sink |-> s1, fault |-> "serialize"]
        ELSE [sink |-> IF o.strings = <<>> THEN SinkByte(s2, 0) ELSE s2,
              fault |-> "none"]

\* The count byte is strings.len().try_into().unwrap(): the panic comes after
\* the type, the length and the handle have been written.
OemStrings_serialize(o, snk) ==
    LET s1 == SinkWord(SinkByte(SinkByte(snk, 11), 5), o.handle) IN
    IF Len(o.strings) <= U8Max
    THEN [sink |-> SinkByte(SinkStrings(SinkByte(s1, Len(o.strings)), o.strings), 0),
          fault |-> "none"]
    ELSE [sink |-> s1, fault |-> "serialize"]

----------------------------------------------------------------------------
(* SystemBootInformation (tables.rs) and BootStatus (types.rs).             *)

\* Faulty variant: the watchdog outcome numbered in sequence (7 instead of 8).
PlainStatus_Sequential ==
    [NoErrorsDetected |-> 0,
     NoBootableMedia |-> 1,
     NormalOperatingSystemFailedToLoad |-> 2,
     FirmwareDetectedHardwareFailure |-> 3,
     OperatingSystemDetectedHardwareFailure |-> 4,
     UserRequestedBoot |-> 5,
     SystemSecurityViolation |-> 6,
     SystemWatchdogTimer |-> 7]

\* The parameterless outcomes and the status byte serialize writes for each.
PlainStatus ==
    [NoErrorsDetected |-> 0,
     NoBootableMedia |-> 1,
     NormalOperatingSystemFailedToLoad |-> 2,
     FirmwareDetectedHardwareFailure |-> 3,
     OperatingSystemDetectedHardwareFailure |-> 4,
     UserRequestedBoot |-> 5,
     SystemSecurityViolation |-> 6,
     SystemWatchdogTimer |-> 8]

Plain(tag) == [tag |-> tag, code |-> 0, extra |-> <<>>]
PreviouslyRequestedImage(extra) ==
    [tag |-> "PreviouslyRequestedImage", code |-> 0, extra |-> extra]
VendorSpecific(code, extra) == [tag |-> "VendorSpecific", code |-> code, extra |-> extra]
ProductSpecific(code, extra) == [tag |-> "ProductSpecific", code |-> code, extra |-> extra]

SystemBootInformation_new(handle, status) ==
    [kind |-> "SystemBootInformation", handle |-> handle, status |-> status]

\* Faulty variant: the vendor range has no upper end.
BootCodeOk_NoUpperEnd(st) ==
    CASE st.tag = "VendorSpecific" -> st.code >= 128
      [] st.tag = "ProductSpecific" -> st.code >= 192
      [] OTHER -> TRUE

\* assert!(*code >= 128 && *code <= 191) and assert!(*code >= 192).
BootCodeOk(st) ==
    CASE st.tag = "VendorSpecific" -> st.code >= 128 /\ st.code <= 191
      [] st.tag = "ProductSpecific" -> st.code >= 192
      [] OTHER -> TRUE

\* The bytes staged in the local output before the length is fixed up.
BootStaged(o) ==
    LET head == SinkVec(SinkWord(SinkByte(SinkByte(<<>>, 32), 0), o.handle), Zeros(6))
        st == o.status
    IN  CASE st.tag \in DOMAIN PlainStatus -> SinkByte(head, PlainStatus[st.tag])
          [] st.tag = "PreviouslyRequestedImage" -> SinkVec(SinkByte(head, 7), st.extra)
          [] OTHER -> SinkVec(SinkByte(head, st.code), st.extra)

\* Faulty variant: the length is fixed up after the two trailing zero bytes.
SystemBootInformation_serialize_LengthLast(o, snk) ==
    IF ~BootCodeOk(o.status) THEN [sink |-> snk, fault |-> "serialize"]
    ELSE LET output == SinkByte(SinkByte(BootStaged(o), 0), 0) IN
         IF Len(output) > U8Max THEN [sink |-> snk, fault |-> "serialize"]
         ELSE [sink |-> SinkVec(snk, [output EXCEPT ![2] = Len(output)]),
               fault |-> "none"]

\* Faulty variant: the length is narrowed with a wrapping cast (`as u8`).
SystemBootInformation_serialize_Wrapping(o, snk) ==
    IF ~BootCodeOk(o.status) THEN [sink |-> snk, fault |-> "serialize"]
    ELSE LET output == BootStaged(o)
             fixed == [output EXCEPT ![2] = Len(output) % 256]
         IN  [sink |-> SinkVec(snk, SinkByte(SinkByte(fixed, 0), 0)), fault |-> "none"]

\* The panics (a failed assert!, the length not fitting a u8) come before the
\* one write to the caller's sink.
SystemBootInformation_serialize(o, snk) ==
    IF ~BootCodeOk(o.status) THEN [sink |-> snk, fault |-> "serialize"]
    ELSE LET output == BootStaged(o) IN
         IF Len(output) > U8Max THEN [sink |-> snk, fault |-> "serialize"]
         ELSE LET fixed == [output EXCEPT ![2] = Len(output)] IN
              [sink |-> SinkVec(snk, SinkByte(SinkByte(fixed, 0), 0)),
               fault |-> "none"]

serialize(o, snk) ==
    CASE o.kind = "generic" -> serialize_structure_with_strings(o, snk)
      [] o.kind = "EntryPoint" -> EntryPoint_serialize(o, snk)
      [] o.kind = "OemStrings" -> OemStrings_serialize(o, snk)
      [] o.kind = "SystemBootInformation" -> SystemBootInformation_serialize(o, snk)

----------------------------------------------------------------------------
(* The caller's inputs.                                                     *)

Handles == {1, 257}

\* Texts, as their UTF-8 bytes: "" and "fo"; "A" fills a long table.
Strs == {<<>>, <<102, 111>>}
FillStr == <<65>>

\* 2^hi - 2^lo as w bits: the bits lo .. hi-1 set.
Run(lo, hi, w) == [i \in 1..w |-> IF lo < i /\ i <= hi THEN 1 ELSE 0]

\* The bit positions at which the sampled u64 arguments change: around the
\* divisors (2^10, 2^20) and the thresholds (2^35 - 2^20, 2^41, 2^52) of the
\* scaled setters, and the ends of the word.
EdgeBits == {0, 10, 20, 21, 35, 41, 42, 52, 53, 64}

\* Every run of set bits between two edge positions (0, 2^41, 2^41 - 1,
\* 2^35 - 2^20, ..., u64::MAX), and the value one below each.
U64Runs == {Run(t[1], t[2], 64) : t \in {t \in EdgeBits \X EdgeBits : t[1] <= t[2]}}
U64Samples == U64Runs \cup {SubBits(r, U64Of(1)) : r \in U64Runs \ {U64Of(0)}}

U64Few == {U64Of(0), Run(0, 41, 64), tb(U64Of(3))}

U32Samples == {Run(a, b, 32) : <<a, b>> \in {t \in {0, 7, 8, 21, 32} \X {0, 7, 8, 21, 32} :
                                              t[1] <= t[2]}}

BootPayloads == {<<>>, <<1, 2, 3>>}

BootStatuses ==
    {Plain(t) : t \in DOMAIN PlainStatus}
    \cup {PreviouslyRequestedImage(e) : e \in BootPayloads}
    \cup {VendorSpecific(c, e) : c \in {100, 128, 191, 192}, e \in BootPayloads}
    \cup {ProductSpecific(c, e) : c \in {50, 191, 192, 255}, e \in BootPayloads}

----------------------------------------------------------------------------
(* The caller: one structure is constructed, set and serialized.            *)

Call(op, arg) == [op |-> op, arg |-> arg]

Init ==
    /\ obj = NoObj
    /\ ctor = <<>>
    /\ sink = <<>>
    /\ mark = 0
    /\ last = Call("none", <<>>)
    /\ nser = 0
    /\ ncalls = 0
    /\ fault = "none"

Live(kind) == fault = "none" /\ obj.kind = kind

\* The bytes the last serialize call wrote.
Written == SubSeq(sink, mark + 1, Len(sink))

Constructed(o, args) ==
    /\ obj' = o
    /\ ctor' = args
    /\ last' = Call("new", <<>>)
    /\ UNCHANGED <<sink, mark, nser, ncalls, fault>>

NewGeneric(types, handles) ==
    /\ obj = NoObj
    /\ \E T \in types, h \in handles : Constructed(new(T, h), <<T, h>>)

NewEntryPoint(sizes, addresses) ==
    /\ obj = NoObj
    /\ \E m \in sizes, a \in addresses : Constructed(EntryPoint_new(m, a), <<m, a>>)

NewOemStrings ==
    /\ obj = NoObj
    /\ \E h \in Handles : Constructed(OemStrings_new(h), <<h>>)

NewSystemBootInformation ==
    /\ obj = NoObj
    /\ \E h \in Handles, st \in BootStatuses :
          Constructed(SystemBootInformation_new(h, st), <<h, st>>)

\* set_<field>(s) on the StringIndex field i of the schema.
StringSetter(i, s) ==
    LET name == Schema(obj.ty)[i].name
        r == set_string(obj, name, s)
    IN  /\ obj' = r.obj
        /\ fault' = r.fault
        /\ ncalls' = ncalls + 1
        /\ last' = Call("set_string", <<name, s>>)
        /\ UNCHANGED <<ctor, sink, mark, nser>>

\* A bounded mix of string setters.
SetString ==
    /\ Live("generic")
    /\ ncalls < MaxCalls
    /\ \E i \in StrFieldIx(obj.ty), s \in Strs : StringSetter(i, s)

\* Appends up to the overflow: a free choice of field and text for the first
\* MaxMix appends, then the field set last again, with FillStr.
FillString ==
    /\ Live("generic")
    /\ \E i \in StrFieldIx(obj.ty) :
          \/ /\ ncalls < MaxMix
             /\ \E s \in Strs : StringSetter(i, s)
          \/ /\ ncalls >= MaxMix
             /\ obj.data[Schema(obj.ty)[i].name] = <<Len(obj.strings)>>
             /\ StringSetter(i, FillStr)

Changed(o, op, arg, flt) ==
    /\ obj' = o
    /\ fault' = flt
    /\ last' = Call(op, arg)
    /\ ncalls' = ncalls + 1
    /\ UNCHANGED <<ctor, sink, mark, nser>>

\* set_<field>(t) on a field that is no StringIndex.
SetValue ==
    /\ Live("generic")
    /\ ncalls < MaxCalls
    /\ \E i \in ValFieldIx(obj.ty) :
          LET f == Schema(obj.ty)[i] IN
          \E t \in f.vals :
              Changed(set_value(obj, f.name, t), "set_value", <<f.name, t>>, "none")

SetMemoryCapacity(args) ==
    /\ Live("generic")
    /\ ncalls < MaxCalls
    /\ obj.ty = 16
    /\ \E b \in args :
          LET r == set_memory_capacity(obj, b) IN
          Changed(r.obj, "set_memory_capacity", b, r.fault)

SetMemorySize(args) ==
    /\ Live("generic")
    /\ ncalls < MaxCalls
    /\ obj.ty = 17
    /\ \E size \in {Some(n) : n \in args} \cup {None} :
          LET r == set_memory_size(obj, size) IN
          Changed(r.obj, "set_memory_size", size, r.fault)

SetAddressRange(args) ==
    /\ Live("generic")
    /\ ncalls < MaxCalls
    /\ obj.ty \in {19, 20}
    /\ \E starting \in args, ending \in args :
          Changed(set_address_range(obj, starting, ending),
                  "set_address_range", <<starting, ending>>, "none")

\* OemStrings::add_string, a bounded number of times.
OemAddString ==
    /\ Live("OemStrings")
    /\ ncalls < MaxCalls
    /\ \E s \in Strs :
          /\ ncalls' = ncalls + 1
          /\ obj' = OemStrings_add_string(obj, s)
          /\ last' = Call("add_string", s)
          /\ UNCHANGED <<ctor, sink, mark, nser, fault>>

\* serialize(&self, sink): the structure is borrowed immutably.
Serialize ==
    /\ fault = "none"
    /\ obj # NoObj
    /\ nser < MaxSerialize
    /\ LET r == serialize(obj, sink) IN
          /\ sink' = r.sink
          /\ fault' = r.fault
    /\ mark' = Len(sink)
    /\ nser' = nser + 1
    /\ last' = Call("serialize", <<>>)
    /\ UNCHANGED <<obj, ctor, ncalls>>

\* Every structure kind, with a bounded mix of setter and serialize calls.
Next ==
    \/ NewGeneric(GenericTypes, Handles)
    \/ NewEntryPoint({Run(0, 32, 32)}, U64Few)
    \/ NewOemStrings
    \/ NewSystemBootInformation
    \/ SetString
    \/ SetValue
    \/ SetMemoryCapacity(U64Few)
    \/ SetMemorySize(U64Few)
    \/ SetAddressRange(U64Few)
    \/ OemAddString
    \/ Serialize

Spec == Init /\ [][Next]_vars

----------------------------------------------------------------------------
(* EntryPoint::new over the sampled arguments, and serialize.               *)

NextEntry ==
    \/ NewEntryPoint(U32Samples, U64Samples)
    \/ Serialize

SpecEntry == Init /\ [][NextEntry]_vars

----------------------------------------------------------------------------
(* String setters of a generic structure up to the overflow of the index.   *)

\* BiosInformation (three string fields among others) and SystemSlots (one).
StringTypes == {0, 9}

NextStrings ==
    \/ NewGeneric(StringTypes, {257})
    \/ FillString

SpecStrings == Init /\ [][NextStrings]_vars

----------------------------------------------------------------------------
(* OemStrings filled past 255 strings, then serialized.                     *)

\* OemStrings::add_string until the list is complete: a free choice of text
\* for the first MaxMix strings, then FillStr.
OemFill ==
    /\ Live("OemStrings")
    /\ nser = 0
    /\ Len(obj.strings) < U8Max + MaxOver
    /\ \E s \in Strs \cup {FillStr} :
          /\ ncalls < MaxMix \/ s = FillStr
          /\ ncalls' = ncalls + 1
          /\ obj' = OemStrings_add_string(obj, s)
          /\ last' = Call("add_string", s)
          /\ UNCHANGED <<ctor, sink, mark, nser, fault>>

NextOem ==
    \/ NewOemStrings
    \/ OemFill
    \/ Serialize

SpecOem == Init /\ [][NextOem]_vars

----------------------------------------------------------------------------
(* The scaled setters of PhysicalMemoryArray and MemoryDevice over the      *)
(* sampled arguments.                                                       *)

NextMem ==
    \/ NewGeneric({16, 17}, {1})
    \/ SetMemoryCapacity(U64Samples)
    \/ SetMemorySize(U64Samples)

SpecMem == Init /\ [][NextMem]_vars

\* SystemBootInformation with every status: each u8 code for the coded
\* variants, and payloads up to one byte more than the length byte allows
\* (4 header bytes, 6 reserved bytes and the status byte precede the payload).
BootHeadLen == Len(BootStaged(SystemBootInformation_new(0, Plain("NoErrorsDetected"))))
Payload(n) == [i \in 1..n |-> i % 256]
BootPayloadsLong ==
    BootPayloads \cup {Payload(U8Max - BootHeadLen), Payload(U8Max - BootHeadLen + 1)}
BootStatusesAll ==
    {Plain(t) : t \in DOMAIN PlainStatus}
    \cup {PreviouslyRequestedImage(e) : e \in BootPayloadsLong}
    \cup {VendorSpecific(c, e) : c \in 0..U8Max, e \in BootPayloadsLong}
    \cup {ProductSpecific(c, e) : c \in 0..U8Max, e \in BootPayloadsLong}

NewBoot ==
    /\ obj = NoObj
    /\ \E h \in Handles, st \in BootStatusesAll :
          Constructed(SystemBootInformation_new(h, st), <<h, st>>)

NextBoot ==
    \/ NewBoot
    \/ Serialize

SpecBoot == Init /\ [][NextBoot]_vars

\* A Vec<u8> used as a sink directly: any sequence of byte, word, dword, qword
\* and vec calls.
SinkBytes == {0, 255}
SinkWords == {258, 65280}
SinkDwords == {Run(0, 9, 32), Run(24, 32, 32)}
SinkQwords == {Run(0, 8, 64), Run(31, 64, 64)}
SinkVecs == {<<>>, <<1, 2, 3>>}

Sunk(snk, op, arg) ==
    /\ sink' = snk
    /\ mark' = Len(sink)
    /\ last' = Call(op, arg)
    /\ ncalls' = ncalls + 1
    /\ UNCHANGED <<obj, ctor, nser, fault>>

CallByte ==
    /\ ncalls < MaxSinkCalls
    /\ \E byte \in SinkBytes : Sunk(SinkByte(sink, byte), "byte", <<byte>>)

CallWord ==
    /\ ncalls < MaxSinkCalls
    /\ \E word \in SinkWords : Sunk(SinkWord(sink, word), "word", <<word>>)

CallDword ==
    /\ ncalls < MaxSinkCalls
    /\ \E dword \in SinkDwords : Sunk(SinkDword(sink, dword), "dword", dword)

CallQword ==
    /\ ncalls < MaxSinkCalls
    /\ \E qword \in SinkQwords : Sunk(SinkQword(sink, qword), "qword", qword)

CallVec ==
    /\ ncalls < MaxSinkCalls
    /\ \E v \in SinkVecs : Sunk(SinkVec(sink, v), "vec", v)

NextSink ==
    \/ CallByte
    \/ CallWord
    \/ CallDword
    \/ CallQword
    \/ CallVec

SpecSink == Init /\ [][NextSink]_vars

\* String setters, on any field any number of times, and serialize.
TableSet ==
    /\ Live("generic")
    /\ ncalls < MaxTable
    /\ \E i \in StrFieldIx(obj.ty), s \in Strs \cup {FillStr} : StringSetter(i, s)

NextTable ==
    \/ NewGeneric(StringTypes, {257})
    \/ TableSet
    \/ Serialize

SpecTable == Init /\ [][NextTable]_vars

----------------------------------------------------------------------------
(* Properties.                                                              *)

\* Offsets used to state the layouts: where field i of the fixed record
\* starts, and where string k starts in the string table.
FieldOffset(T, i) == 4 + SumSeq([j \in 1..(i - 1) |-> Schema(T)[j].w])
StrOffset(strings, k) == SumSeq([j \in 1..(k - 1) |-> Len(strings[j]) + 1])

\* The sizes the static assertions of tables.rs fix, by type id.
ConstAssertSize ==
    (0 :> 20) @@ (1 :> 27) @@ (4 :> 50) @@ (7 :> 27) @@ (9 :> 19) @@ (16 :> 23)
    @@ (17 :> 100) @@ (19 :> 31) @@ (20 :> 35) @@ (44 :> 116)

\* C1: for every (structure_max_size, table_address) pair, the 24 bytes that
\* EntryPoint::new followed by serialize writes sum to 0 modulo 256, and the
\* checksum byte at offset 5 is the two's complement of the wrapped sum of the
\* other 23 bytes (the last 12 of which are the two arguments).
C1_EntryPointChecksum ==
    (obj.kind = "EntryPoint" /\ last.op = "serialize") =>
        /\ Len(Written) = 24
        /\ SumSeq(Written) % 256 = 0
        /\ Written[6] = (256 - ((SumSeq(Written) - Written[6]) % 256)) % 256
        /\ SubSeq(Written, 13, 16) = BitsToBytes(ctor[1])
        /\ SubSeq(Written, 17, 24) = BitsToBytes(ctor[2])

\* An entry point whose byte sum wraps more than once has been serialized.
C1_Witness ==
    /\ obj.kind = "EntryPoint"
    /\ last.op = "serialize"
    /\ Written[6] # 0
    /\ SumSeq(Written) >= 512
    /\ ctor[2] # U64Of(0)

\* C2: the k-th successful string append on a generic structure (any string
\* setter, any mix of fields) yields index k and stores exactly k in the field
\* whose setter was called, for every k from 1 to 255.
C2_KthAppendStoresK ==
    (obj.kind = "generic" /\ last.op = "set_string" /\ fault = "none") =>
        /\ ncalls \in 1..255
        /\ obj.data[last.arg[1]] = <<ncalls>>
        /\ Len(obj.strings) = ncalls
        /\ obj.strings[ncalls] = last.arg[2]

\* The 255th append has stored 255.
C2_Witness ==
    /\ obj.kind = "generic"
    /\ last.op = "set_string"
    /\ fault = "none"
    /\ ncalls = 255
    /\ obj.data[last.arg[1]] = <<255>>

\* C3: in every state reached from new(handle) by setter calls, each string
\* field of a generic structure holds 0 or an index between 1 and the current
\* number of strings.
C3_StringIndexInRange ==
    obj.kind = "generic" =>
        \A i \in StrFieldIx(obj.ty) :
            LET v == obj.data[Schema(obj.ty)[i].name] IN
            /\ Len(v) = 1
            /\ v[1] = 0 \/ (1 <= v[1] /\ v[1] <= Len(obj.strings))

\* BiosInformation with 255 strings: one field never set, one holding the
\* first index, one the last.
C3_Witness ==
    /\ obj.kind = "generic"
    /\ obj.ty = 0
    /\ fault = "none"
    /\ Len(obj.strings) = 255
    /\ obj.data["vendor"] = <<1>>
    /\ obj.data["bios_version"] = <<0>>
    /\ obj.data["bios_release_date"] = <<255>>

\* C4: serialize on a generic structure of type T writes the type byte T, the
\* length byte, the handle as 2 little-endian bytes, the schema fields in
\* declared order with no gaps (at their defaults when no setter was called),
\* each string in append order followed by one zero byte, then one more zero
\* byte, and a second one when there are no strings; length + sum(len(s)+1) + 1
\* bytes in all, plus 1 when there are no strings.
C4_SerializeLayout ==
    (obj.kind = "generic" /\ last.op = "serialize" /\ fault = "none") =>
        LET T == obj.ty
            W == Written
            L == obj.data["length"][1]
            ss == obj.strings
            tail == StrOffset(ss, Len(ss) + 1)
        IN  /\ Len(W) = L + tail + 1 + (IF ss = <<>> THEN 1 ELSE 0)
            /\ W[1] = T
            /\ T = ctor[1]
            /\ W[2] = L
            /\ W[3] = ctor[2] % 256
            /\ W[4] = ctor[2] \div 256
            /\ \A i \in FieldIx(T) :
                  SubSeq(W, FieldOffset(T, i) + 1, FieldOffset(T, i) + Schema(T)[i].w)
                      = obj.data[Schema(T)[i].name]
            /\ L = FieldOffset(T, Len(Schema(T)) + 1)
            /\ ncalls = 0 =>
                  \A i \in FieldIx(T) : obj.data[Schema(T)[i].name] = Schema(T)[i].dflt
            /\ \A k \in 1..Len(ss) :
                  LET at == L + StrOffset(ss, k) IN
                  /\ SubSeq(W, at + 1, at + Len(ss[k])) = ss[k]
                  /\ W[at + Len(ss[k]) + 1] = 0
            /\ W[L + tail + 1] = 0
            /\ ss = <<>> => W[L + 2] = 0

\* A processor structure with one non-empty string and a second field set
\* has been serialized.
C4_Witness ==
    /\ obj.kind = "generic"
    /\ last.op = "serialize"
    /\ fault = "none"
    /\ Len(obj.strings) = 1
    /\ obj.strings[1] # <<>>
    /\ ncalls = 2
    /\ obj.ty = 4

\* C5: the length byte of a generic structure is the byte size of the fixed
\* record (4 header bytes and the declared field widths) and the per-type
\* constant; new(handle) fixes it and no setter changes it.
C5_LengthIsRecordSize ==
    obj.kind = "generic" =>
        LET T == obj.ty IN
        /\ obj.data["length"] =
              <<4 + SumSeq([i \in FieldIx(T) |-> Len(obj.data[Schema(T)[i].name])])>>
        /\ obj.data["length"] = <<FieldOffset(T, Len(Schema(T)) + 1)>>
        /\ T \in DOMAIN ConstAssertSize => obj.data["length"] = <<ConstAssertSize[T]>>
        /\ (last.op = "serialize" /\ fault = "none") =>
              Written[2] = obj.data["length"][1]

\* MemoryDevice after two setter calls, one of them a string append.
C5_Witness ==
    /\ obj.kind = "generic"
    /\ obj.ty = 17
    /\ ncalls = 2
    /\ Len(obj.strings) = 1
    /\ obj.data["length"] = <<100>>

C7_StringOverflowFaults ==
    [][(last'.op = "set_string" /\ ncalls' = ncalls + 1) =>
          LET n == Len(obj.strings)
              name == last'.arg[1]
          IN  IF n >= U8Max
              THEN /\ fault' = "add_string"
                   /\ obj'.data = obj.data
              ELSE /\ fault' = "none"
                   /\ n + 1 \in 1..255
                   /\ obj'.data[name] = <<n + 1>>
                   /\ \A f \in DOMAIN obj.data :
                         f # name => obj'.data[f] = obj.data[f]]_vars

\* The 256th string setter call has faulted; the field it was called on still
\* holds 255.
C7_Witness ==
    /\ obj.kind = "generic"
    /\ last.op = "set_string"
    /\ ncalls = 256
    /\ fault = "add_string"
    /\ obj.data[last.arg[1]] = <<255>>

\* C8: on an OemStrings instance that holds 255 strings the next add_string
\* call faults at that call, so that no instance that has not faulted holds
\* more than 255 strings.
C8_OemAddStringFaultsAt255 ==
    (obj.kind = "OemStrings" /\ last.op = "add_string" /\ fault = "none") =>
        Len(obj.strings) <= U8Max

\* C9: set_memory_capacity(b) never faults; for b >= 2^41 (a bit at or above
\* bit 41 is set) maximum_capacity is the sentinel 0x8000_0000 and
\* extended_maximum_capacity is b; for b < 2^41 maximum_capacity is
\* floor(b / 1024) (bits 10..40 of b, so bit 31 of the field is clear) and
\* extended_maximum_capacity is 0. 2^41 takes the sentinel path and 2^41 - 1
\* the kilobyte path.
C9_CapacityBoundary ==
    (obj.kind = "generic" /\ last.op = "set_memory_capacity") =>
        LET b == last.arg
            max == obj.data["maximum_capacity"]
            ext == obj.data["extended_maximum_capacity"]
        IN  /\ fault = "none"
            /\ IF \E i \in 42..64 : b[i] = 1
               THEN /\ max = <<0, 0, 0, 128>>
                    /\ ext = BitsToBytes(b)
               ELSE /\ max = BitsToBytes(SubSeq(b, 11, 41) \o <<0>>)
                    /\ max[4] < 128
                    /\ ext = Zeros(8)
            /\ b = Run(41, 42, 64) => max = <<0, 0, 0, 128>>
            /\ b = Run(0, 41, 64) => max = <<255, 255, 255, 127>>

\* set_memory_capacity(2 TiB) after an earlier call on the same instance.
C9_Witness ==
    /\ obj.kind = "generic"
    /\ last.op = "set_memory_capacity"
    /\ ncalls = 2
    /\ last.arg = Run(41, 42, 64)
    /\ obj.data["maximum_capacity"] = <<0, 0, 0, 128>>
    /\ obj.data["extended_maximum_capacity"] = <<0, 0, 0, 0, 0, 2, 0, 0>>

\* s >= 32 GiB - 1 MiB: floor(s / 2^20) >= 0x7FFF, read off the bits of s.
AtSizeThreshold(s) == (\E i \in 36..64 : s[i] = 1) \/ (\A i \in 21..35 : s[i] = 1)

\* C10 as stated: after set_memory_size(Some(s)) with s >= 32 GiB - 1 MiB the
\* size field is 0x7FFF and extended_size is floor(s / 2^20); below the
\* threshold the size field is floor(s / 2^20), at most 0x7FFE; after
\* set_memory_size(None) the size field is 0xFFFF.
C10_AsStated ==
    (obj.kind = "generic" /\ last.op = "set_memory_size") =>
        LET size == obj.data["size"]
            ext == obj.data["extended_size"]
        IN  IF last.arg = None
            THEN size = <<255, 255>>
            ELSE LET s == last.arg[1] IN
                 IF AtSizeThreshold(s)
                 THEN /\ size = <<255, 127>>
                      /\ ext \o Zeros(2) = BitsToBytes(SubSeq(s, 21, 64) \o Zeros(4))
                 ELSE /\ size = BitsToBytes(SubSeq(s, 21, 36))
                      /\ size[2] < 128

\* C10, amended: set_memory_size(Some(s)) with 32 GiB - 1 MiB <= s < 2^52
\* stores the sentinel 0x7FFF in size and floor(s / 2^20) in extended_size
\* (for s >= 2^52 the call faults instead); Some(s) below the threshold stores
\* floor(s / 2^20) in size, at most 0x7FFE, and leaves extended_size alone;
\* None stores 0xFFFF in size and leaves extended_size alone.
C10_SizeThresholds ==
    [][(last'.op = "set_memory_size" /\ ncalls' = ncalls + 1) =>
          LET size == obj'.data["size"]
              ext == obj'.data["extended_size"]
          IN  IF last'.arg = None
              THEN /\ fault' = "none"
                   /\ size = <<255, 255>>
                   /\ ext = obj.data["extended_size"]
              ELSE LET s == last'.arg[1] IN
                   IF AtSizeThreshold(s)
                   THEN IF \E i \in 53..64 : s[i] = 1
                        THEN fault' = "set_memory_size"
                        ELSE /\ fault' = "none"
                             /\ size = <<255, 127>>
                             /\ ext = BitsToBytes(SubSeq(s, 21, 52))
                   ELSE /\ fault' = "none"
                        /\ size = BitsToBytes(SubSeq(s, 21, 36))
                        /\ size[2] < 128
                        /\ size # <<255, 127>>
                        /\ ext = obj.data["extended_size"]]_vars

\* set_memory_size(Some(32 GiB - 1 MiB)) has stored the sentinel and 0x7FFF
\* megabytes.
C10_Witness ==
    /\ obj.kind = "generic"
    /\ last.op = "set_memory_size"
    /\ fault = "none"
    /\ last.arg = Some(Run(20, 35, 64))
    /\ obj.data["size"] = <<255, 127>>
    /\ obj.data["extended_size"] = <<255, 127, 0, 0>>

\* C11: set_memory_size(Some(s)) faults for every s >= 2^52 (a bit at or above
\* bit 52 is set, so floor(s / 2^20) does not fit 32 bits), and the faulting
\* call stores nothing in extended_size: the field keeps the value it had.
C11_OversizeFaults ==
    [][(last'.op = "set_memory_size" /\ ncalls' = ncalls + 1
            /\ last'.arg # None /\ \E i \in 53..64 : last'.arg[1][i] = 1) =>
          /\ fault' = "set_memory_size"
          /\ obj'.data["extended_size"] = obj.data["extended_size"]]_vars

\* set_memory_size(Some(2^52)) has faulted on an instance whose extended_size
\* an earlier call had set to 0x7FFF.
C11_Witness ==
    /\ obj.kind = "generic"
    /\ last.op = "set_memory_size"
    /\ last.arg = Some(Run(52, 53, 64))
    /\ ncalls = 2
    /\ fault = "set_memory_size"
    /\ obj.data["extended_size"] = <<255, 127, 0, 0>>

\* The variants of BootStatus in declared order.
BootDeclared ==
    << "NoErrorsDetected", "NoBootableMedia", "NormalOperatingSystemFailedToLoad",
       "FirmwareDetectedHardwareFailure", "OperatingSystemDetectedHardwareFailure",
       "UserRequestedBoot", "SystemSecurityViolation", "PreviouslyRequestedImage",
       "SystemWatchdogTimer", "VendorSpecific", "ProductSpecific" >>

\* The status byte the format gives a status: the position in declared order
\* for the outcomes without a code, the carried code otherwise.
StatusByte(st) ==
    IF st.tag \in {"VendorSpecific", "ProductSpecific"} THEN st.code
    ELSE (CHOOSE i \in DOMAIN BootDeclared : BootDeclared[i] = st.tag) - 1

\* A status whose code is in the range of its variant.
ValidStatus(st) ==
    /\ st.tag = "VendorSpecific" => st.code \in 128..191
    /\ st.tag = "ProductSpecific" => st.code \in 192..255

\* C12: SystemBootInformation::serialize writes, for every valid status, byte
\* 32, the length byte, the handle as 2 little-endian bytes, 6 zero bytes, the
\* status byte (0..6 and 8 for the parameterless outcomes in declared order, 7
\* for PreviouslyRequestedImage, the carried code for VendorSpecific and
\* ProductSpecific), the payload verbatim (none for a parameterless outcome),
\* then 2 zero bytes.
C12_BootLayout ==
    (obj.kind = "SystemBootInformation" /\ last.op = "serialize" /\ fault = "none") =>
        LET W == Written
            st == obj.status
            n == Len(st.extra)
        IN  /\ ValidStatus(st)
            /\ Len(W) = 4 + 6 + 1 + n + 2
            /\ W[1] = 32
            /\ W[3] = ctor[1] % 256
            /\ W[4] = ctor[1] \div 256
            /\ SubSeq(W, 5, 10) = <<0, 0, 0, 0, 0, 0>>
            /\ W[11] = StatusByte(st)
            /\ st.tag = "SystemWatchdogTimer" => W[11] = 8
            /\ st.tag = "PreviouslyRequestedImage" => W[11] = 7
            /\ SubSeq(W, 12, 11 + n) = st.extra
            /\ W[12 + n] = 0
            /\ W[13 + n] = 0
            /\ st = ctor[2]

\* SystemWatchdogTimer has been serialized with a two-byte handle.
C12_Witness ==
    /\ obj.kind = "SystemBootInformation"
    /\ last.op = "serialize"
    /\ fault = "none"
    /\ obj.status.tag = "SystemWatchdogTimer"
    /\ Written = <<32, 11, 1, 1, 0, 0, 0, 0, 0, 0, 8, 0, 0>>

\* C13 as stated: for every status that serializes, the length byte at offset
\* 1 equals the number of bytes the serialize call writes to the sink.
C13_AsStated ==
    (obj.kind = "SystemBootInformation" /\ last.op = "serialize" /\ fault = "none") =>
        Written[2] = Len(Written)

\* C13, amended: for every status that serializes, the length byte at offset 1
\* is the number of bytes up to the end of the payload (4 header bytes, 6
\* reserved bytes, the status byte and the payload); the two trailing zero
\* bytes are written after it is computed, so the call writes 2 bytes more
\* than the length byte says.
C13_LengthBeforeTrailer ==
    (obj.kind = "SystemBootInformation" /\ last.op = "serialize" /\ fault = "none") =>
        /\ Written[2] = 11 + Len(obj.status.extra)
        /\ Written[2] = Len(Written) - 2

\* The longest payload that serializes: length byte 255, 257 bytes written.
C13_Witness ==
    /\ obj.kind = "SystemBootInformation"
    /\ last.op = "serialize"
    /\ fault = "none"
    /\ Len(obj.status.extra) = 244
    /\ Written[2] = 255
    /\ Len(Written) = 257

\* C14: a SystemBootInformation with a VendorSpecific code outside 128..191 or
\* a ProductSpecific code below 192 faults at its serialize call, for every
\* such code, and nothing is written to the sink for it.
C14_InvalidCodeFaults ==
    (obj.kind = "SystemBootInformation" /\ ~ValidStatus(obj.status) /\ nser > 0) =>
        /\ fault = "serialize"
        /\ nser = 1
        /\ sink = <<>>

\* VendorSpecific(100, ..) has faulted in serialize.
C14_Witness ==
    /\ obj.kind = "SystemBootInformation"
    /\ obj.status.tag = "VendorSpecific"
    /\ obj.status.code = 100
    /\ obj.status.extra = <<1, 2, 3>>
    /\ last.op = "serialize"
    /\ fault = "serialize"
    /\ sink = <<>>

\* C19: SystemBootInformation::serialize never writes a wrapped or truncated
\* length byte: with a payload longer than 244 bytes the call faults, and a
\* faulting call (oversized payload or invalid code) leaves the caller's sink
\* as it was; a call that completes writes a length byte of 11 plus the
\* payload length, at most 255.
C19_NoWrappedLength ==
    [][(obj.kind = "SystemBootInformation" /\ last'.op = "serialize"
            /\ nser' = nser + 1) =>
          LET n == Len(obj.status.extra) IN
          IF n > 244 \/ ~ValidStatus(obj.status)
          THEN /\ fault' = "serialize"
               /\ sink' = sink
          ELSE /\ fault' = "none"
               /\ Len(sink') = Len(sink) + 13 + n
               /\ sink'[Len(sink) + 2] = 11 + n
               /\ 11 + n <= 255]_vars

\* A valid status with a 245-byte payload has faulted in serialize.
C19_Witness ==
    /\ obj.kind = "SystemBootInformation"
    /\ ValidStatus(obj.status)
    /\ Len(obj.status.extra) = 245
    /\ last.op = "serialize"
    /\ fault = "serialize"
    /\ sink = <<>>

\* C15: OemStrings::serialize with n strings, 0 <= n <= 255, writes byte 11,
\* byte 5, the handle as 2 little-endian bytes, the count byte n, each string
\* in add order followed by one zero byte, then one final zero byte; with
\* n = 0 that is 6 bytes, the final terminator alone following the count.
C15_OemLayout ==
    (obj.kind = "OemStrings" /\ last.op = "serialize" /\ fault = "none") =>
        LET ss == obj.strings
            n == Len(ss)
            head == <<11, 5, ctor[1] % 256, ctor[1] \div 256, n>>
        IN  /\ n <= 255
            /\ Written = head \o Flatten([k \in 1..n |-> ss[k] \o <<0>>]) \o <<0>>
            /\ n = 0 => Len(Written) = 6

\* An instance with 255 strings, the first two of them different, has been
\* serialized.
C15_Witness ==
    /\ obj.kind = "OemStrings"
    /\ last.op = "serialize"
    /\ fault = "none"
    /\ Len(obj.strings) = 255
    /\ obj.strings[1] = <<102, 111>>
    /\ obj.strings[2] = <<>>
    /\ Written[5] = 255

\* The bytes whose bits, least significant byte and bit first, are the given
\* bits.
IsLittleEndian(bytes, bits) ==
    /\ Len(bytes) * 8 = Len(bits)
    /\ \A k \in 1..Len(bytes) : \A j \in 1..8 :
          (bytes[k] \div (2 ^ (j - 1))) % 2 = bits[8 * (k - 1) + j]

\* C16: the sink is append-only and little-endian: every byte, word, dword,
\* qword or vec call on a Vec<u8> leaves the bytes already there as a prefix
\* and appends exactly 1, 2, 4, 8 or len(v) bytes after them: the byte, the
\* value's bytes least significant first, or the bytes of v verbatim; so the
\* content is the concatenation of the calls' bytes in call order.
C16_SinkAppendOnlyLE ==
    [][(last'.op \in {"byte", "word", "dword", "qword", "vec"}
            /\ ncalls' = ncalls + 1) =>
          LET arg == last'.arg
              added == SubSeq(sink', Len(sink) + 1, Len(sink'))
          IN  /\ Len(sink') >= Len(sink)
              /\ SubSeq(sink', 1, Len(sink)) = sink
              /\ CASE last'.op = "byte" -> added = arg
                   [] last'.op = "word" ->
                          added = <<arg[1] % 256, arg[1] \div 256>>
                   [] last'.op = "dword" ->
                          Len(added) = 4 /\ IsLittleEndian(added, arg)
                   [] last'.op = "qword" ->
                          Len(added) = 8 /\ IsLittleEndian(added, arg)
                   [] OTHER -> added = arg]_vars

\* vec([1, 2, 3]), word(0x0102) and qword(0xFF) in that order.
C16_Witness ==
    /\ obj = NoObj
    /\ ncalls = 3
    /\ last.op = "qword"
    /\ sink = <<1, 2, 3, 2, 1, 255, 0, 0, 0, 0, 0, 0, 0>>

\* C17: after any sequence of set_memory_size calls on one instance, the pair
\* (size, extended_size) is the pair a fresh instance has after the last call
\* alone, so extended_size is nonzero only when size holds the sentinel 0x7FFF.
C17_LastCallDetermines ==
    (obj.kind = "generic" /\ obj.ty = 17 /\ last.op = "set_memory_size"
            /\ fault = "none") =>
        LET fresh == set_memory_size(new(17, ctor[2]), last.arg).obj IN
        /\ obj.data["size"] = fresh.data["size"]
        /\ obj.data["extended_size"] = fresh.data["extended_size"]
        /\ obj.data["extended_size"] # Zeros(4) => obj.data["size"] = <<255, 127>>

\* C18: the string table of a generic structure is append-only: every string
\* setter call, also on a field that already holds a nonzero index, appends
\* its text after the strings already there and stores the new index; so the
\* string count is the number of string setter calls made, and serialize
\* writes every string, the earlier ones included, in append order.
C18_TableAppendOnly ==
    [][/\ (last'.op = "set_string" /\ ncalls' = ncalls + 1) =>
             /\ fault' = "none"
             /\ obj'.strings = obj.strings \o <<last'.arg[2]>>
             /\ obj'.data[last'.arg[1]] = <<Len(obj.strings) + 1>>
       /\ obj'.kind = "generic" => Len(obj'.strings) = ncalls'
       /\ (last'.op = "serialize" /\ nser' = nser + 1) =>
             LET L == obj.data["length"][1]
                 ss == obj.strings
             IN  SubSeq(sink', Len(sink) + L + 1, Len(sink'))
                     = Flatten([k \in 1..Len(ss) |-> ss[k] \o <<0>>])
                           \o (IF ss = <<>> THEN <<0, 0>> ELSE <<0>>)]_vars

\* One field set three times: three strings, the field holds 3, and all three
\* have been serialized.
C18_Witness ==
    /\ obj.kind = "generic"
    /\ obj.ty = 0
    /\ last.op = "serialize"
    /\ obj.strings = << <<102, 111>>, <<65>>, <<>> >>
    /\ obj.data["vendor"] = <<3>>
    /\ obj.data["bios_version"] = <<0>>
    /\ obj.data["bios_release_date"] = <<0>>
    /\ SubSeq(Written, 21, Len(Written)) = <<102, 111, 0, 65, 0, 0, 0>>

====
